---- MODULE Spec2Model ----
(***************************************************************************)
(* Pose extraction and registration pipeline of route-scanner.             *)
(*                                                                         *)
(* Pixels are integers.  A normalized landmark coordinate (a float in     *)
(* [0,1] in the program) is a numerator over LmDen; a full-frame landmark  *)
(* coordinate is kept in units of 1/LmDen pixel, so that every product and *)
(* quotient the program computes is exact here.  A pose landmark set is    *)
(* represented by its entries 0, 23 and 24 (nose and the two hips): these  *)
(* are the only entries the program reads by index, every other entry goes *)
(* through the same map.                                                   *)
(***************************************************************************)
EXTENDS Integers, Sequences, FiniteSets, TLC

(***************************************************************************)
(* Bounds of the model                                                     *)
(***************************************************************************)
FrameW == 3        \* videoEl.videoWidth  (natural pixels)
FrameH == 3        \* videoEl.videoHeight
DispW == 2         \* displayed width of the video element (CSS pixels)
DispH == 2         \* displayed height of the video element
LmDen == 2         \* resolution of normalized landmark coordinates
MaxDuration == 3   \* longest video, in seconds
MaxInterval == 2   \* largest value typed in the interval input
MaxRewind == 2     \* how far below 0 the sampling loop is followed
ImgRectW == 12     \* displayed width of the image under the crop box
ImgRectH == 11     \* displayed height of the image under the crop box
MouseStep == 4     \* distance between the mouse positions followed
MaxCorners == 3    \* corners ORB can find in image B
FewFeatures == 2   \* a small value typed in the nfeatures input
ViewerFrames == 4  \* frames of the session the viewer can be given
MaxClicks == 2     \* clicks on the Detect Pose button
MaxKeypoints == 5  \* most ORB keypoints found in an image
MaxNavListeners == 2  \* click listeners on the Prev / Next buttons
MaxFrames == 3     \* frames handed to the transform one after the other
MaxQueries == 6    \* source descriptors handed to the matcher on its own
MaxTargets == 2    \* target descriptors handed to the matcher on its own
MaxRatioQueries == 2   \* source descriptors with freely chosen distances
MaxDistance == 2   \* largest Hamming distance between two descriptors
MaxJsonKeypoints == 2  \* keypoints of a detect result that is exported
MaxDescriptorCols == 2 \* bytes in a descriptor row that is exported
MaxDescriptorBytes == 4    \* bytes in all the descriptors that are exported

(***************************************************************************)
(* Program constants                                                       *)
(***************************************************************************)
LeftHipIdx == 23
RightHipIdx == 24

Null == [null |-> TRUE]

Runs == 1..MaxClicks

Max(a, b) == IF a >= b THEN a ELSE b
Min(a, b) == IF a <= b THEN a ELSE b

\* Math.round(a / b) for b > 0: floor(a/b + 1/2)
MathRound(a, b) == (2 * a + b) \div (2 * b)

(***************************************************************************)
(* CropBox.getCropRect: display rectangle -> natural video pixels          *)
(***************************************************************************)
getCropRect(box) ==
    [x      |-> MathRound(box.left * FrameW, DispW),
     y      |-> MathRound(box.top * FrameH, DispH),
     width  |-> MathRound(box.width * FrameW, DispW),
     height |-> MathRound(box.height * FrameH, DispH)]

\* crop boxes that lie inside the displayed video
CropBoxes ==
    {[left |-> l, top |-> t, width |-> w, height |-> h] :
        l \in 0..(DispW - 1), t \in 0..(DispH - 1),
        w \in 1..DispW, h \in 1..DispH}

BoxInDisplay(box) ==
    /\ box.left + box.width <= DispW
    /\ box.top + box.height <= DispH

\* parseInt(intervalInput.value, 10) || 1   (0 stands for "0" and for NaN)
ParseInterval(v) == IF v = 0 THEN 1 ELSE v

IntervalInputs == 0..MaxInterval

(***************************************************************************)
(* The pose detector (opaque): what poseLandmarker.detect may return       *)
(***************************************************************************)
Pt(a, b) == [x |-> a, y |-> b]

HipPts ==
    {Pt(a, b) : a \in {0, LmDen}, b \in {0, LmDen}}
        \cup {Pt(LmDen \div 2, LmDen \div 2)}

MkPose(nose, lhip, rhip) ==
    [i \in {0, LeftHipIdx, RightHipIdx} |->
        IF i = 0 THEN nose ELSE IF i = LeftHipIdx THEN lhip ELSE rhip]

\* the right hip is level with the left hip, at the same x or one step right
PosesWithLeftHip(l) ==
    {MkPose(Pt(l.x, 0), l, Pt(rx, l.y)) : rx \in {l.x, Min(l.x + 1, LmDen)}}

FullPoses == UNION {PosesWithLeftHip(l) : l \in HipPts}

\* landmark arrays too short to hold both hips
PartialPoses ==
    {[i \in {0} |-> Pt(LmDen, LmDen)],
     [i \in {0, LeftHipIdx} |-> Pt(0, LmDen)]}

DetectorResults == {<<>>} \cup {<<p>> : p \in FullPoses \cup PartialPoses}

(***************************************************************************)
(* processFrame, line by line                                              *)
(***************************************************************************)
\* source rectangle of the drawImage call that fills croppedCanvas
CroppedRegion(cropForThisFrame) ==
    IF cropForThisFrame # Null
    THEN [left |-> cropForThisFrame.left, top |-> cropForThisFrame.top,
          width |-> cropForThisFrame.width, height |-> cropForThisFrame.height]
    ELSE [left |-> 0, top |-> 0, width |-> FrameW, height |-> FrameH]

\* lm.x * crop.width + crop.left, in units of 1/LmDen pixel
OffsetPoint(lm, c) ==
    [x |-> lm.x * c.width + c.left * LmDen,
     y |-> lm.y * c.height + c.top * LmDen]

HasHips(landmarks) ==
    /\ Len(landmarks) > 0
    /\ LeftHipIdx \in DOMAIN landmarks[1]
    /\ RightHipIdx \in DOMAIN landmarks[1]

\* Math.round(center_original - size / 2) with
\* center_original = pos + ((l + r) / 2) * size, l and r over LmDen
CenteredOrigin(pos, size, l, r) ==
    pos + MathRound((l + r - LmDen) * size, 2 * LmDen)

\* the clamp without its lower-right bound
ClampOriginNoUpper(v, size, frameSize) == Max(0, v)

\* Math.min(Math.max(0, v), frameSize - size)
ClampOrigin(v, size, frameSize) == Min(Max(0, v), frameSize - size)

\* a tracker that falls back to the frame origin when the anchor is lost
RecenterResetOnMiss(crop, landmarks, frameWidth, frameHeight) ==
    IF crop # Null /\ HasHips(landmarks)
    THEN LET ls == landmarks[1]
         IN  [crop EXCEPT
                !.left = ClampOrigin(
                    CenteredOrigin(crop.left, crop.width,
                                   ls[LeftHipIdx].x, ls[RightHipIdx].x),
                    crop.width, frameWidth),
                !.top = ClampOrigin(
                    CenteredOrigin(crop.top, crop.height,
                                   ls[LeftHipIdx].y, ls[RightHipIdx].y),
                    crop.height, frameHeight)]
    ELSE IF crop # Null THEN [crop EXCEPT !.left = 0, !.top = 0] ELSE crop

\* a tracker that cuts the window at the frame border instead of moving it
RecenterShrinkToFit(crop, landmarks, frameWidth, frameHeight) ==
    IF crop # Null /\ HasHips(landmarks)
    THEN LET ls == landmarks[1]
             l == Max(0, CenteredOrigin(crop.left, crop.width,
                            ls[LeftHipIdx].x, ls[RightHipIdx].x))
             t == Max(0, CenteredOrigin(crop.top, crop.height,
                            ls[LeftHipIdx].y, ls[RightHipIdx].y))
         IN  [crop EXCEPT
                !.left = Min(l, frameWidth - 1),
                !.top = Min(t, frameHeight - 1),
                !.width = Min(crop.width, frameWidth - Min(l, frameWidth - 1)),
                !.height = Min(crop.height, frameHeight - Min(t, frameHeight - 1))]
    ELSE crop

Recenter(crop, landmarks, frameWidth, frameHeight) ==
    IF crop # Null /\ HasHips(landmarks)
    THEN LET ls == landmarks[1]
         IN  [crop EXCEPT
                !.left = ClampOrigin(
                    CenteredOrigin(crop.left, crop.width,
                                   ls[LeftHipIdx].x, ls[RightHipIdx].x),
                    crop.width, frameWidth),
                !.top = ClampOrigin(
                    CenteredOrigin(crop.top, crop.height,
                                   ls[LeftHipIdx].y, ls[RightHipIdx].y),
                    crop.height, frameHeight)]
    ELSE crop

\* landmarks offset with the crop as recentered on this frame's hips
OffsetLandmarksRecentered(landmarks, cropForThisFrame, crop) ==
    IF Len(landmarks) > 0 /\ cropForThisFrame # Null
    THEN LET landmarkSet == landmarks[Len(landmarks)]
         IN  [i \in DOMAIN landmarkSet |->
                 OffsetPoint(landmarkSet[i],
                             Recenter(crop, landmarks, FrameW, FrameH))]
    ELSE <<>>

\* the loop over result.landmarks leaves the last set, offset by the crop
\* this frame was cut with
OffsetLandmarks(landmarks, cropForThisFrame, crop) ==
    IF Len(landmarks) > 0 /\ cropForThisFrame # Null
    THEN LET landmarkSet == landmarks[Len(landmarks)]
         IN  [i \in DOMAIN landmarkSet |->
                 OffsetPoint(landmarkSet[i], cropForThisFrame)]
    ELSE <<>>

\* recording the crop as it is at the push, after the recentering
RecordedCropAtPush(cropForThisFrame, crop) == crop

\* cropRect: cropForThisFrame ? { ...cropForThisFrame } : null
RecordedCrop(cropForThisFrame, crop) == cropForThisFrame

PoseFrame(t, offsetLandmarks, cropForThisFrame, crop) ==
    [time |-> t, landmarks |-> offsetLandmarks,
     cropRect |-> RecordedCrop(cropForThisFrame, crop)]

\* a push that skips frames without landmarks
PushFrameIfLandmarks(results, frame) ==
    IF frame.landmarks = <<>> THEN results ELSE Append(results, frame)

\* poseResults.push(frame)
PushFrame(results, frame) == Append(results, frame)

(***************************************************************************)
(* State                                                                   *)
(***************************************************************************)
VARIABLES
    cropBox,        \* cropBoxEl.style: left, top, width, height (display px)
    intervalInput,  \* intervalInput.value
    duration,       \* videoEl.duration
    scene,          \* what the detector can find in the frames of the video
    currentTime,    \* videoEl.currentTime
    onseeked,       \* videoEl.onseeked
    seekedEvents,   \* 'seeked' events queued and not yet dispatched
    clicks,         \* clicks on Detect Pose so far
    pc,             \* per click: where its handlePoseDetect stands
    cropRect,       \* per click: the cropRect argument
    interval,       \* per click: the intervalSeconds argument
    crop,           \* per click: closure variable crop
    isFirstFrame,   \* per click: closure variable isFirstFrame
    loopT,          \* per click: loop variable t of extractFrames
    tasks,          \* processFrame invocations in progress
    poseResults,    \* the pose session
    detections,     \* history of the session's poseLandmarker.detect calls:
                    \* the image given, the landmarks returned, and the
                    \* crop as processFrame left it
    shared,         \* shared_state.js
    cvReady,        \* orb: OpenCV.js readiness flag
    imgAReady,      \* orb: image A readiness flag
    imgBReady,      \* orb: image B readiness flag
    detectResult,   \* orb: detection result of image A
    orbJSON,        \* orb: detected features JSON
    btnDetectDisabled,  \* btnDetect.disabled
    btnMatchDisabled,   \* btnMatch.disabled
    landmarkImages,     \* orb: images with drawn landmarks
    landmarkFrameIdx,   \* orb: index of the image shown
    navListeners,   \* click listeners on prevBtn (and as many on nextBtn)
    lastMatch,      \* history of the last click on Match: what was matched,
                    \* estimated, passed to transformLandmarks and alerted
    callArgs,       \* the arguments of a library function called on its own
    callResult      \* what the calls made so far returned and left behind

vars == <<cropBox, intervalInput, duration, scene, currentTime, onseeked,
          seekedEvents, clicks, pc, cropRect, interval, crop, isFirstFrame,
          loopT, tasks, poseResults, detections, shared, cvReady, imgAReady,
          imgBReady, detectResult, orbJSON, btnDetectDisabled,
          btnMatchDisabled, landmarkImages, landmarkFrameIdx, navListeners,
          lastMatch, callArgs, callResult>>

uiVars == <<cropBox, intervalInput, duration, scene>>

callVars == <<callArgs, callResult>>

orbVars == <<cvReady, imgAReady, imgBReady, detectResult, orbJSON,
             btnDetectDisabled, btnMatchDisabled, landmarkImages,
             landmarkFrameIdx, navListeners, lastMatch>>

\* the state of the extraction apart from the session
extractionVars == <<cropBox, intervalInput, duration, scene, currentTime,
                    onseeked, seekedEvents, clicks, pc, cropRect, interval,
                    crop, isFirstFrame, loopT, tasks, detections>>

poseVars == <<cropBox, intervalInput, duration, scene, currentTime, onseeked,
              seekedEvents, clicks, pc, cropRect, interval, crop,
              isFirstFrame, loopT, tasks, poseResults, detections>>

ClickHandler(r) == [kind |-> "click", run |-> r]
FrameHandler(r, t) == [kind |-> "frame", run |-> r, t |-> t]

InitCommon ==
    /\ currentTime = 0
    /\ onseeked = Null
    /\ seekedEvents = 0
    /\ clicks = 0
    /\ pc = [r \in Runs |-> "idle"]
    /\ cropRect = [r \in Runs |-> Null]
    /\ interval = [r \in Runs |-> 0]
    /\ crop = [r \in Runs |-> Null]
    /\ isFirstFrame = [r \in Runs |-> FALSE]
    /\ loopT = [r \in Runs |-> 0]
    /\ tasks = <<>>
    /\ poseResults = <<>>
    /\ detections = <<>>
    /\ shared = [firstFrameImage |-> Null, poseA |-> Null, sizeA |-> Null,
                 orbA |-> Null, transformedPoseLandmarks |-> Null,
                 landmarkImagesOnB |-> Null]
    /\ cvReady = FALSE
    /\ imgAReady = FALSE
    /\ imgBReady = FALSE
    /\ detectResult = Null
    /\ orbJSON = Null
    /\ btnDetectDisabled = TRUE
    /\ btnMatchDisabled = TRUE
    /\ landmarkImages = <<>>
    /\ landmarkFrameIdx = 0
    /\ navListeners = 1
    /\ lastMatch = Null

\* a video is loaded, the crop box and the interval are set, nothing clicked
Init ==
    /\ InitCommon
    /\ cropBox \in {b \in CropBoxes : BoxInDisplay(b)}
    /\ intervalInput \in IntervalInputs
    /\ duration \in 1..MaxDuration
    /\ scene = DetectorResults
    /\ callArgs = Null
    /\ callResult = Null

\* the same page with a two-second video in which the detector finds either
\* nobody or a person at the top left of the crop, and the crop box left
\* covering the whole video
PageUI ==
    /\ InitCommon
    /\ cropBox = [left |-> 0, top |-> 0, width |-> DispW, height |-> DispH]
    /\ intervalInput = 1
    /\ duration = 2
    /\ scene = {<<>>, <<MkPose(Pt(0, 0), Pt(0, 0), Pt(0, 0))>>}

InitUI ==
    /\ PageUI
    /\ callArgs = Null
    /\ callResult = Null

\* a page with a video of any length in which the detector finds nobody,
\* the crop box left covering the whole video, and any integer typed in the
\* interval input, negative ones included
InitInterval ==
    /\ InitCommon
    /\ cropBox = [left |-> 0, top |-> 0, width |-> DispW, height |-> DispH]
    /\ intervalInput \in (-MaxInterval)..MaxInterval
    /\ duration \in 1..MaxDuration
    /\ scene = {<<>>}
    /\ callArgs = Null
    /\ callResult = Null

\* the same page with a one-second video of a person at the top left: an
\* extraction samples the timestamp 0 alone
InitOneFrame ==
    /\ InitCommon
    /\ cropBox = [left |-> 0, top |-> 0, width |-> DispW, height |-> DispH]
    /\ intervalInput = 1
    /\ duration = 1
    /\ scene = {<<MkPose(Pt(0, 0), Pt(0, 0), Pt(0, 0))>>}
    /\ callArgs = Null
    /\ callResult = Null

(***************************************************************************)
(* The video element: assigning currentTime starts a seek; its 'seeked'    *)
(* event is dispatched later to whatever onseeked holds then.  A seek      *)
(* started while an event is still due either replaces it or adds one.     *)
(***************************************************************************)
SeekOutcomes == IF seekedEvents = 0 THEN {1} ELSE {seekedEvents, seekedEvents + 1}

Seek(t, handler) ==
    /\ currentTime' = t
    /\ onseeked' = handler
    /\ \E k \in SeekOutcomes : seekedEvents' = k

(***************************************************************************)
(* handlePoseDetect, up to its first await                                 *)
(***************************************************************************)
handlePoseDetect(r) ==
    /\ pc[r] = "idle"
    /\ clicks' = r
    /\ Seek(0, ClickHandler(r))
    /\ pc' = [pc EXCEPT ![r] = "awaitSeek0"]
    /\ UNCHANGED <<uiVars, cropRect, interval, crop, isFirstFrame, loopT,
                   tasks, poseResults, detections, shared>>
    /\ UNCHANGED orbVars
    /\ UNCHANGED callVars

\* the first click after the video has loaded
ClickDetect == clicks = 0 /\ handlePoseDetect(1)

\* a later click: the button is never disabled
ClickDetectAgain ==
    /\ clicks > 0
    /\ clicks < MaxClicks
    /\ handlePoseDetect(clicks + 1)

(***************************************************************************)
(* extractFrames: one turn of  for (t = ...; t < duration; t += n)         *)
(* When the loop ends, runPoseDetectionOnFrames returns and                *)
(* handlePoseDetect runs on to  await loadOpenCV().                        *)
(***************************************************************************)
\* the loop with an inclusive bound
ExtractLoopInclusive(r, t) ==
    IF t <= duration
    THEN /\ Seek(t, FrameHandler(r, t))
         /\ loopT' = [loopT EXCEPT ![r] = t]
         /\ pc' = [pc EXCEPT ![r] = "extracting"]
    ELSE /\ UNCHANGED <<currentTime, onseeked, seekedEvents>>
         /\ loopT' = [loopT EXCEPT ![r] = t]
         /\ pc' = [pc EXCEPT ![r] = "loadOpenCV"]

ExtractLoop(r, t) ==
    IF t < duration
    THEN /\ t >= -MaxRewind
         /\ Seek(t, FrameHandler(r, t))
         /\ loopT' = [loopT EXCEPT ![r] = t]
         /\ pc' = [pc EXCEPT ![r] = "extracting"]
    ELSE /\ UNCHANGED <<currentTime, onseeked, seekedEvents>>
         /\ loopT' = [loopT EXCEPT ![r] = t]
         /\ pc' = [pc EXCEPT ![r] = "loadOpenCV"]

(***************************************************************************)
(* Dispatch of a 'seeked' event                                            *)
(***************************************************************************)
\* handlePoseDetect resumes: getCropRect, parse interval, clear the session,
\* call runPoseDetectionOnFrames, which awaits the landmarker
ResumeClick(r) ==
    /\ cropRect' = [cropRect EXCEPT ![r] =
            LET c == getCropRect(cropBox)
            IN  [x |-> c.x, y |-> c.y, width |-> c.width, height |-> c.height,
                 left |-> c.x, top |-> c.y]]
    /\ interval' = [interval EXCEPT ![r] = ParseInterval(intervalInput)]
    /\ poseResults' = <<>>
    /\ detections' = <<>>
    /\ pc' = [pc EXCEPT ![r] = "createLandmarker"]
    /\ UNCHANGED <<tasks>>

\* the handler installed by extractFrames: draw the frame, call processFrame,
\* which runs to its first await (img.onload)
StartProcessFrame(r, t) ==
    /\ tasks' = Append(tasks, [run |-> r, t |-> t, stage |-> "loadFrame",
                               cropForThisFrame |-> Null, croppedImg |-> Null])
    /\ UNCHANGED <<cropRect, interval, poseResults, detections, pc>>

SeekedEvent ==
    /\ seekedEvents > 0
    /\ seekedEvents' = seekedEvents - 1
    /\ IF onseeked = Null
       THEN UNCHANGED <<cropRect, interval, poseResults, detections, pc, tasks>>
       ELSE IF onseeked.kind = "click"
       THEN IF pc[onseeked.run] = "awaitSeek0"
            THEN ResumeClick(onseeked.run)
            ELSE UNCHANGED <<cropRect, interval, poseResults, detections, pc, tasks>>
       ELSE StartProcessFrame(onseeked.run, onseeked.t)
    /\ UNCHANGED <<uiVars, currentTime, onseeked, clicks, crop, isFirstFrame,
                   loopT, shared>>
    /\ UNCHANGED orbVars
    /\ UNCHANGED callVars

(***************************************************************************)
(* runPoseDetectionOnFrames after the landmarker is created                *)
(***************************************************************************)
LandmarkerReady(r) ==
    /\ pc[r] = "createLandmarker"
    /\ poseResults' = <<>>
    /\ detections' = <<>>
    /\ crop' = [crop EXCEPT ![r] = cropRect[r]]
    /\ isFirstFrame' = [isFirstFrame EXCEPT ![r] = TRUE]
    /\ ExtractLoop(r, 0)
    /\ UNCHANGED <<uiVars, clicks, cropRect, interval, tasks, shared>>
    /\ UNCHANGED orbVars
    /\ UNCHANGED callVars

(***************************************************************************)
(* processFrame after img.onload: first-frame capture, crop, second await  *)
(***************************************************************************)
FrameLoaded(i) ==
    /\ i \in DOMAIN tasks
    /\ tasks[i].stage = "loadFrame"
    /\ LET r == tasks[i].run
           cropForThisFrame == crop[r]
       IN  /\ IF isFirstFrame[r]
              THEN /\ isFirstFrame' = [isFirstFrame EXCEPT ![r] = FALSE]
                   /\ shared' = [shared EXCEPT !.firstFrameImage =
                                    [run |-> r, t |-> tasks[i].t]]
              ELSE UNCHANGED <<isFirstFrame, shared>>
           /\ tasks' = [tasks EXCEPT ![i] =
                  [@ EXCEPT !.stage = "loadCropped",
                            !.cropForThisFrame = cropForThisFrame,
                            !.croppedImg = CroppedRegion(cropForThisFrame)]]
    /\ UNCHANGED <<uiVars, currentTime, onseeked, seekedEvents, clicks, pc,
                   cropRect, interval, crop, loopT, poseResults, detections>>
    /\ UNCHANGED orbVars
    /\ UNCHANGED callVars

(***************************************************************************)
(* processFrame after croppedImg.onload: detect, offset, recenter, push;   *)
(* then the onseeked handler calls resolve()                               *)
(***************************************************************************)
RemoveAt(s, i) == [j \in 1..(Len(s) - 1) |-> IF j < i THEN s[j] ELSE s[j + 1]]

FrameDetected(i) ==
    /\ i \in DOMAIN tasks
    /\ tasks[i].stage = "loadCropped"
    /\ \E result \in scene :
        LET r == tasks[i].run
            t == tasks[i].t
            cropForThisFrame == tasks[i].cropForThisFrame
            offsetLandmarks == OffsetLandmarks(result, cropForThisFrame, crop[r])
            newCrop == Recenter(crop[r], result, FrameW, FrameH)
        IN  /\ crop' = [crop EXCEPT ![r] = newCrop]
            /\ poseResults' = PushFrame(poseResults,
                    PoseFrame(t, offsetLandmarks, cropForThisFrame, newCrop))
            /\ detections' = Append(detections,
                    [run |-> r, t |-> t, image |-> tasks[i].croppedImg,
                     landmarks |-> result, cropAfter |-> newCrop])
            /\ tasks' = RemoveAt(tasks, i)
            /\ IF pc[r] = "extracting" /\ loopT[r] = t
               THEN ExtractLoop(r, t + interval[r])
               ELSE UNCHANGED <<currentTime, onseeked, seekedEvents, loopT, pc>>
    /\ UNCHANGED <<uiVars, clicks, cropRect, interval, isFirstFrame, shared>>
    /\ UNCHANGED orbVars
    /\ UNCHANGED callVars

(***************************************************************************)
(* handlePoseDetect after the extraction                                   *)
(***************************************************************************)
OpenCVLoaded(r) ==
    /\ pc[r] = "loadOpenCV"
    /\ pc' = [pc EXCEPT ![r] = "showOrbSection"]
    /\ UNCHANGED <<uiVars, currentTime, onseeked, seekedEvents, clicks,
                   cropRect, interval, crop, isFirstFrame, loopT, tasks,
                   poseResults, detections, shared>>
    /\ UNCHANGED orbVars
    /\ UNCHANGED callVars

\* refreshButtons(): the two disabled attributes from the three flags and
\* the detection result
DetectDisabled(cv, a) == ~(cv /\ a)

\* refreshButtons() enabling Match without looking at the detection result
MatchDisabledIgnoringDetection(cv, b, det) == ~(cv /\ b)

\* refreshButtons() keeping Match disabled once a match has been attempted
MatchDisabledOnceMatched(cv, b, det) ==
    ~(cv /\ b /\ det # Null) \/ lastMatch # Null

MatchDisabled(cv, b, det) == ~(cv /\ b /\ det # Null)

\* setShared of the session's landmarks, then showOrbSection: initOrbModule,
\* image A loaded from the first frame, flags set, detection result dropped
OrbSectionShown(r) ==
    /\ pc[r] = "showOrbSection"
    /\ shared' = [shared EXCEPT
            !.poseA = [k \in 1..Len(poseResults) |-> poseResults[k].landmarks],
            !.sizeA = [width |-> FrameW, height |-> FrameH]]
    /\ pc' = [pc EXCEPT ![r] = "done"]
    /\ cvReady' = TRUE
    /\ imgAReady' = TRUE
    /\ detectResult' = Null
    /\ btnDetectDisabled' = DetectDisabled(TRUE, TRUE)
    /\ btnMatchDisabled' = MatchDisabled(TRUE, imgBReady, Null)
    /\ UNCHANGED <<uiVars, currentTime, onseeked, seekedEvents, clicks,
                   cropRect, interval, crop, isFirstFrame, loopT, tasks,
                   poseResults, detections>>
    /\ UNCHANGED <<imgBReady, orbJSON, landmarkImages, landmarkFrameIdx,
                   navListeners, lastMatch>>
    /\ UNCHANGED callVars

(***************************************************************************)
(* Registration: values                                                    *)
(***************************************************************************)
\* the outcome of a call: an exception, or a value returned
Throw == [threw |-> TRUE]
Ret(v) == [threw |-> FALSE, value |-> v]

\* a cv.Mat holding a 3x3 matrix, row by row, and the empty cv.Mat
Mat(h) == [kind |-> "mat", empty |-> FALSE, data |-> h]
EmptyMat == [kind |-> "mat", empty |-> TRUE, data |-> <<>>]
IsMat(v) == "kind" \in DOMAIN v /\ v.kind = "mat"

\* a JavaScript array
JsArray(a) == [kind |-> "array", items |-> a]

\* the string 'homography'
HomographyMethod == [kind |-> "string", chars |-> "homography"]

\* the result of an arithmetic operation on undefined
NaNPt == [nan |-> TRUE]

\* what cv.findHomography can return: nothing, the identity, a translation
Homographies == {<<1, 0, 0, 0, 1, 0, 0, 0, 1>>, <<1, 0, 1, 0, 1, 1, 0, 0, 1>>}
RansacOutcomes == {EmptyMat} \cup {Mat(h) : h \in Homographies}

MatchFailedAlert == "Match failed. See console."
TransformFailedAlert == "Transform computation failed. See console."
LandmarkFailedAlert == "Landmark transformation failed. See console."
NoFeaturesAlert == "Load features.json or run Detect on Image A first."

(***************************************************************************)
(* ORBModule                                                               *)
(***************************************************************************)
\* a JS number that is the fraction num / den
Num(n) == [num |-> n, den |-> 1]
Divide(a, n) == [num |-> a.num, den |-> a.den * n]
SameNumber(a, b) == a.num * b.den = b.num * a.den

\* _serializeKeypoints: a keypoint is known by its rank and has a position
\* in pixels
KeyPoint(i, x, y) == [id |-> i, x |-> Num(x), y |-> Num(y)]

\* _serializeDescriptors(des)
serializeDescriptors(rows, cols, data) ==
    IF rows = 0 \/ cols = 0
    THEN Null
    ELSE [rows |-> rows, cols |-> cols, data |-> data]

\* bytes of an ORB descriptor
DescriptorCols == 32

\* detectORB on an image in which ORB finds n keypoints, one descriptor row
\* for each
detectORB(n) ==
    [keypoints |-> [i \in 1..n |->
                        KeyPoint(i, (i - 1) % FrameW,
                                 ((i - 1) \div FrameW) % FrameH)],
     descriptors |-> serializeDescriptors(n, DescriptorCols,
                        [k \in 1..(n * DescriptorCols) |-> (37 * k) % 256]),
     width |-> FrameW,
     height |-> FrameH]

\* the base64 alphabet of btoa and atob
B64Alphabet ==
    <<
    "A", "B", "C", "D", "E", "F", "G", "H",
    "I", "J", "K", "L", "M", "N", "O", "P",
    "Q", "R", "S", "T", "U", "V", "W", "X",
    "Y", "Z", "a", "b", "c", "d", "e", "f",
    "g", "h", "i", "j", "k", "l", "m", "n",
    "o", "p", "q", "r", "s", "t", "u", "v",
    "w", "x", "y", "z", "0", "1", "2", "3",
    "4", "5", "6", "7", "8", "9", "+", "/"
    >>

B64Pad == "="

B64Index(c) == (CHOOSE i \in 1..64 : B64Alphabet[i] = c) - 1

\* btoa(binary): three characters become four base64 characters, a last
\* group of one or two is padded with '='
RECURSIVE btoa(_)
btoa(binary) ==
    IF binary = <<>>
    THEN <<>>
    ELSE LET n == Min(3, Len(binary))
             v == binary[1] * 65536
                  + (IF n >= 2 THEN binary[2] ELSE 0) * 256
                  + (IF n >= 3 THEN binary[3] ELSE 0)
         IN  << B64Alphabet[(v \div 262144) + 1],
                B64Alphabet[((v \div 4096) % 64) + 1],
                IF n >= 2 THEN B64Alphabet[((v \div 64) % 64) + 1] ELSE B64Pad,
                IF n >= 3 THEN B64Alphabet[(v % 64) + 1] ELSE B64Pad >>
             \o btoa(SubSeq(binary, 4, Len(binary)))

\* atob(b64): four base64 characters become three characters, fewer for a
\* padded group
RECURSIVE atob(_)
atob(b64) ==
    IF Len(b64) < 4
    THEN <<>>
    ELSE LET pads == IF b64[3] = B64Pad THEN 2
                     ELSE IF b64[4] = B64Pad THEN 1 ELSE 0
             v == B64Index(b64[1]) * 262144
                  + B64Index(b64[2]) * 4096
                  + (IF pads < 2 THEN B64Index(b64[3]) ELSE 0) * 64
                  + (IF pads < 1 THEN B64Index(b64[4]) ELSE 0)
             three == << v \div 65536, (v \div 256) % 256, v % 256 >>
         IN  SubSeq(three, 1, 3 - pads) \o atob(SubSeq(b64, 5, Len(b64)))

\* String.fromCharCode.apply(null, chunk), chunk after chunk: a string
\* whose character codes are the bytes
fromCharCode(u8) == [i \in 1..Len(u8) |-> u8[i]]

\* _u8ToB64 keeping seven bits of each byte
u8ToB64SevenBit(u8) == btoa(fromCharCode([i \in 1..Len(u8) |-> u8[i] % 128]))

\* _u8ToB64(u8)
u8ToB64(u8) == btoa(fromCharCode(u8))

\* _b64ToU8(b64): u8[i] = bin.charCodeAt(i) in a Uint8Array
b64ToU8(b64) == LET bin == atob(b64) IN [i \in 1..Len(bin) |-> bin[i] % 256]

exportJSON(det) ==
    [version |-> 1,
     type |-> "ORB",
     imageSize |-> [width |-> det.width, height |-> det.height],
     keypoints |-> [i \in DOMAIN det.keypoints |->
                        [det.keypoints[i] EXCEPT
                            !.x = Divide(det.keypoints[i].x, det.width),
                            !.y = Divide(det.keypoints[i].y, det.height)]],
     descriptors |-> IF det.descriptors = Null
                     THEN Null
                     ELSE [rows |-> det.descriptors.rows,
                           cols |-> det.descriptors.cols,
                           data_b64 |-> u8ToB64(det.descriptors.data)]]

\* importJSON(obj)
importJSON(obj) ==
    IF obj = Null \/ obj.type # "ORB"
    THEN Throw
    ELSE Ret([width |-> obj.imageSize.width,
              height |-> obj.imageSize.height,
              keypoints |-> obj.keypoints,
              descriptors |-> IF obj.descriptors = Null
                              THEN Null
                              ELSE [rows |-> obj.descriptors.rows,
                                    cols |-> obj.descriptors.cols,
                                    data |-> b64ToU8(obj.descriptors.data_b64)]])

\* a cv.DMatch
DMatch(q, t, d) == [queryIdx |-> q, trainIdx |-> t, distance |-> d]

\* opts.ratio ?? 0.75, as a fraction
DefaultRatio == [num |-> 3, den |-> 4]

\* the user's ratio.value, for the matcher on its own
Ratios == {DefaultRatio, [num |-> 1, den |-> 2]}

\* bf.knnMatch(srcDesc, targetDescriptors, knn, 2) for source descriptor q
\* against nB target descriptors: the nearest at distance d[1] and the
\* second nearest at distance d[2], as many of them as there are target
\* descriptors
KnnVec(q, nB, d) ==
    IF nB = 0
    THEN <<>>
    ELSE IF nB = 1
    THEN <<DMatch(q, 0, d[1])>>
    ELSE <<DMatch(q, q % nB, d[1]), DMatch(q, (q + 1) % nB, d[2])>>

\* the Hamming distances of a nearest and a second nearest neighbour
DistancePairs == {d \in (0..MaxDistance) \X (0..MaxDistance) : d[1] <= d[2]}

\* the ratio test turned round, keeping the ambiguous matches
PassesRatioReversed(m, n, ratio) ==
    m.distance * ratio.den >= ratio.num * n.distance

\* the ratio test with  <=  in place of  <
PassesRatioInclusive(m, n, ratio) ==
    m.distance * ratio.den <= ratio.num * n.distance

\* m.distance < ratio * n.distance
PassesRatio(m, n, ratio) == m.distance * ratio.den < ratio.num * n.distance

\* the filter loop pushing both neighbours of a source descriptor that
\* passes
RECURSIVE RatioFilterBothNeighbours(_, _)
RatioFilterBothNeighbours(knn, ratio) ==
    IF knn = <<>>
    THEN <<>>
    ELSE LET vec == knn[Len(knn)]
             before == RatioFilterBothNeighbours(SubSeq(knn, 1, Len(knn) - 1),
                                                 ratio)
         IN  IF Len(vec) >= 2 /\ PassesRatio(vec[1], vec[2], ratio)
             THEN before \o <<vec[1], vec[2]>>
             ELSE before

\* the loop over knn: a source descriptor with two neighbours whose nearest
\* passes the ratio test contributes its nearest match to good
RECURSIVE RatioFilter(_, _)
RatioFilter(knn, ratio) ==
    IF knn = <<>>
    THEN <<>>
    ELSE LET vec == knn[Len(knn)]
             before == RatioFilter(SubSeq(knn, 1, Len(knn) - 1), ratio)
         IN  IF Len(vec) >= 2 /\ PassesRatio(vec[1], vec[2], ratio)
             THEN Append(before, vec[1])
             ELSE before

\* a knn result in which the source descriptors of pass have a nearest
\* neighbour well ahead of the second, and the others have not
KnnOfPassing(nA, nB, pass) ==
    [i \in 1..nA |->
        KnnVec(i - 1, nB, IF (i - 1) \in pass THEN <<1, 4>> ELSE <<3, 4>>)]

\* the matches that pass the ratio test when the first g source descriptors
\* are the distinctive ones
GoodMatches(nA, nB) ==
    {RatioFilter(KnnOfPassing(nA, nB, 0..(g - 1)), DefaultRatio) : g \in 0..nA}

QueriesOf(good) == {good[i].queryIdx : i \in DOMAIN good}

\* what cv.findHomography(srcPts, dstPts, cv.RANSAC, thresh, mask) can give
\* for the correspondences of good: no matrix, or a matrix together with
\* the correspondences it counts as inliers, four at least
RansacResults(good) ==
    {[H |-> EmptyMat, inliers |-> {}]} \cup
    {[H |-> Mat(h), inliers |-> S] :
        h \in Homographies,
        S \in {T \in SUBSET QueriesOf(good) : Cardinality(T) >= 4}}

\* the outcomes in which RANSAC keeps every correspondence
RansacKeepingAll(good) ==
    {r \in RansacResults(good) : r.H.empty \/ r.inliers = QueriesOf(good)}

\* a mask with one entry for each inlier
InlierMaskOfInliersOnly(good, inliers) ==
    [i \in 1..Cardinality(inliers) |-> TRUE]

\* the mask findHomography fills in: one row for each point pair it was
\* given, in the order given
InlierMask(good, inliers) ==
    [i \in 1..Len(good) |-> good[i].queryIdx \in inliers]

\* cv.countNonZero(mask)
CountNonZero(mask) == Cardinality({i \in DOMAIN mask : mask[i]})

\* matchToTarget(sourceJson, targetMat, opts), given the matches that passed
\* the ratio test and what findHomography returns for them
MatchToTarget(sourceJson, good, ransac) ==
    IF sourceJson.descriptors = Null
    THEN Throw
    ELSE LET found == Len(good) >= 4 /\ ~ransac.H.empty
             mask == InlierMask(good, ransac.inliers)
         IN  Ret([matches |-> good,
                  homography |-> IF found THEN JsArray(ransac.H.data) ELSE Null,
                  numInliers |-> IF found THEN CountNonZero(mask) ELSE 0,
                  inlierMask |-> IF found THEN JsArray(mask) ELSE Null])

\* drawMatches: the colour of the line of match i
MatchColours(matchRes) ==
    [i \in 1..Len(matchRes.matches) |->
        IF matchRes.inlierMask = Null
        THEN "green"
        ELSE IF matchRes.inlierMask.items[i] THEN "green" ELSE "red"]

(***************************************************************************)
(* orb utils and PoseTransform                                             *)
(***************************************************************************)
\* matchesToArray(matches, keypointsA, keypointsB, imageSizeA)
matchesToArray(matches, keypointsA, keypointsB) ==
    IF keypointsA = Null \/ keypointsB = Null
    THEN Ret(Null)
    ELSE IF \E k \in DOMAIN matches :
                \/ matches[k].queryIdx + 1 \notin DOMAIN keypointsA
                \/ matches[k].trainIdx + 1 \notin DOMAIN keypointsB
    THEN Throw
    ELSE IF Len(matches) < 4
    THEN Ret(Null)
    ELSE Ret([src |-> [k \in DOMAIN matches |->
                            keypointsA[matches[k].queryIdx + 1]],
              dst |-> [k \in DOMAIN matches |->
                            keypointsB[matches[k].trainIdx + 1]]])

\* PoseTransform.computeTransform, method 'homography', given what
\* findHomography returns for the points
computeTransform(srcLandmarks, dstLandmarks, ransacH) ==
    IF Len(srcLandmarks) # Len(dstLandmarks) \/ Len(srcLandmarks) < 4
    THEN Throw
    ELSE Ret(ransacH)

\* lm.x * srcSize.width, lm.y * srcSize.height
Denormalize(lm, srcSize) ==
    IF "width" \in DOMAIN srcSize
    THEN Pt(lm.x * srcSize.width, lm.y * srcSize.height)
    ELSE NaNPt

\* cv.perspectiveTransform of one point by the matrix h
PerspectivePoint(p, h) ==
    IF p = NaNPt
    THEN NaNPt
    ELSE LET w == h[7] * p.x + h[8] * p.y + h[9] * LmDen
         IN  IF w = 0
             THEN NaNPt
             ELSE Pt((LmDen * (h[1] * p.x + h[2] * p.y + h[3] * LmDen)) \div w,
                     (LmDen * (h[4] * p.x + h[5] * p.y + h[6] * LmDen)) \div w)

\* transformLandmarks scaling its input landmarks in place
LandmarksAfterTransformInPlace(landmarks, srcSize, M) ==
    IF srcSize = Null
    THEN landmarks
    ELSE [i \in DOMAIN landmarks |-> Denormalize(landmarks[i], srcSize)]

\* the input landmark list as transformLandmarks leaves it: it reads lm.x
\* and lm.y into a new array and assigns nothing
LandmarksAfterTransform(landmarks, srcSize, M) == landmarks

\* PoseTransform.transformLandmarks(landmarks, srcSize, M, method) for a
\* non-empty landmark list
transformLandmarks(landmarks, srcSize, M) ==
    IF srcSize = Null
    THEN Throw
    ELSE IF ~IsMat(M)
    THEN Throw
    ELSE IF M.empty
    THEN Throw
    ELSE Ret([i \in DOMAIN landmarks |->
                    PerspectivePoint(Denormalize(landmarks[i], srcSize), M.data)])

(***************************************************************************)
(* orb main                                                                *)
(***************************************************************************)
\* the try block of computeTransformationMatrix
computeTransformationMatrixTry(matchResult, offsetKeypointsB, ransacH) ==
    IF matchResult = Null
    THEN Throw
    ELSE IF Len(matchResult.matches) < 4
    THEN Throw
    ELSE LET arrays == matchesToArray(matchResult.matches, shared.orbA,
                                      offsetKeypointsB)
         IN  IF arrays.threw
             THEN Throw
             ELSE IF arrays.value = Null
             THEN Throw
             ELSE computeTransform(arrays.value.src, arrays.value.dst, ransacH)

\* computeTransformationMatrix without its catch and finally
computeTransformationMatrixUncaught(matchResult, offsetKeypointsB, ransacH) ==
    LET body == computeTransformationMatrixTry(matchResult, offsetKeypointsB,
                                               ransacH)
    IN  IF body.threw
        THEN [threw |-> TRUE, value |-> Null, alerts |-> <<>>]
        ELSE [threw |-> FALSE, value |-> body.value, alerts |-> <<>>]

\* computeTransformationMatrix: the catch alerts, and the finally returns
\* transformMat whatever happened
computeTransformationMatrix(matchResult, offsetKeypointsB, ransacH) ==
    LET body == computeTransformationMatrixTry(matchResult, offsetKeypointsB,
                                               ransacH)
    IN  IF body.threw
        THEN [threw |-> FALSE, value |-> Null,
              alerts |-> <<TransformFailedAlert>>]
        ELSE [threw |-> FALSE, value |-> body.value, alerts |-> <<>>]

\* the loop of btnMatch over the frames of poseA, from frame i on: empty
\* frames are skipped, the others are given to transformLandmarks with the
\* arguments (frameLandmarks, transformMat, 'homography'); an exception
\* ends the loop
RECURSIVE TransformLoop(_, _, _, _)
TransformLoop(frames, i, transformMat, acc) ==
    IF i > Len(frames)
    THEN acc
    ELSE IF DOMAIN frames[i] = {}
    THEN TransformLoop(frames, i + 1, transformMat, acc)
    ELSE LET res == transformLandmarks(frames[i], transformMat, HomographyMethod)
             called == [acc EXCEPT
                            !.calls =
                                Append(@, [frame |-> i, landmarks |-> frames[i],
                                           transformMat |-> transformMat]),
                            !.frames[i] =
                                LandmarksAfterTransform(frames[i], transformMat,
                                                        HomographyMethod)]
         IN  IF res.threw
             THEN [called EXCEPT !.threw = TRUE]
             ELSE TransformLoop(frames, i + 1, transformMat,
                                [called EXCEPT !.out = Append(@, res.value)])

\* v === null, for a v that is null or a list of any length
IsNull(v) == ToString(v) = ToString(Null)

ApplyTransform(poseLandmarksAllFrames, transformMat) ==
    IF IsNull(poseLandmarksAllFrames)
    THEN [threw |-> TRUE, calls |-> <<>>, out |-> <<>>,
          frames |-> poseLandmarksAllFrames]
    ELSE TransformLoop(poseLandmarksAllFrames, 1, transformMat,
                       [threw |-> FALSE, calls |-> <<>>, out |-> <<>>,
                        frames |-> poseLandmarksAllFrames])

\* the frames of the session hold the landmark lists that poseA holds
WithLandmarks(results, frames) ==
    [k \in DOMAIN results |->
        IF k \in DOMAIN frames
        THEN [results[k] EXCEPT !.landmarks = frames[k]]
        ELSE results[k]]

\* fileB change: image B loads, or fails to
FileBChange ==
    /\ \E loaded \in BOOLEAN :
        /\ imgBReady' = loaded
        /\ btnMatchDisabled' = MatchDisabled(cvReady, loaded, detectResult)
    /\ btnDetectDisabled' = DetectDisabled(cvReady, imgAReady)
    /\ UNCHANGED <<poseVars, shared, cvReady, imgAReady, detectResult, orbJSON,
                   landmarkImages, landmarkFrameIdx, navListeners, lastMatch>>
    /\ UNCHANGED callVars

\* click on Detect: ORB finds n keypoints in image A, n one of counts, or
\* detection throws
BtnDetectFinding(counts) ==
    /\ ~btnDetectDisabled
    /\ IF ~cvReady \/ ~imgAReady
       THEN UNCHANGED <<detectResult, orbJSON, shared, btnDetectDisabled,
                        btnMatchDisabled>>
       ELSE /\ \/ \E n \in counts :
                    /\ detectResult' = detectORB(n)
                    /\ orbJSON' = exportJSON(detectORB(n))
                    /\ shared' = [shared EXCEPT !.orbA = detectORB(n).keypoints]
               \/ /\ detectResult' = Null
                  /\ orbJSON' = Null
                  /\ UNCHANGED shared
            /\ btnDetectDisabled' = DetectDisabled(cvReady, imgAReady)
            /\ btnMatchDisabled' = MatchDisabled(cvReady, imgBReady, detectResult')
    /\ UNCHANGED <<poseVars, cvReady, imgAReady, imgBReady, landmarkImages,
                   landmarkFrameIdx, navListeners, lastMatch>>
    /\ UNCHANGED callVars

BtnDetectClick == BtnDetectFinding(0..MaxKeypoints)

\* click on Match: ORB finds nB keypoints in image B, good are the matches
\* that pass the ratio test, ransac1 and ransac2 are what findHomography
\* returns in matchToTarget and in computeTransform
btnMatch(nB, good, ransac1, ransac2) ==
    LET offsetKeypointsB == detectORB(nB).keypoints
        match == MatchToTarget(orbJSON, good, ransac1)
        matchResult == IF match.threw THEN Null ELSE match.value
        matchAlerts == IF match.threw THEN <<MatchFailedAlert>> ELSE <<>>
        estimate == computeTransformationMatrix(matchResult, offsetKeypointsB,
                                                ransac2)
        transformMat == estimate.value
        applied == ApplyTransform(shared.poseA, transformMat)
        transformedAllFrames == applied.out
        drawnImages == transformedAllFrames
        framesAfter == IF estimate.threw THEN shared.poseA ELSE applied.frames
        record == [good |-> good, matchResult |-> matchResult,
                   transformMat |-> transformMat, calls |-> <<>>,
                   alerts |-> matchAlerts \o estimate.alerts,
                   stored |-> FALSE, uncaught |-> FALSE]
    IN  /\ btnMatchDisabled' = MatchDisabled(cvReady, imgBReady, detectResult)
        /\ poseResults' = WithLandmarks(poseResults, framesAfter)
        /\ IF estimate.threw
           THEN /\ lastMatch' = [record EXCEPT !.uncaught = TRUE]
                /\ UNCHANGED <<shared, landmarkImages, landmarkFrameIdx,
                               navListeners>>
           ELSE IF applied.threw
           THEN /\ lastMatch' = [record EXCEPT
                        !.calls = applied.calls,
                        !.alerts = Append(@, LandmarkFailedAlert)]
                /\ shared' = [shared EXCEPT !.poseA = framesAfter]
                /\ UNCHANGED <<landmarkImages, landmarkFrameIdx, navListeners>>
           ELSE /\ lastMatch' = [record EXCEPT !.calls = applied.calls,
                                               !.stored = TRUE]
                /\ shared' = [shared EXCEPT
                        !.poseA = framesAfter,
                        !.transformedPoseLandmarks = transformedAllFrames,
                        !.landmarkImagesOnB = drawnImages]
                /\ navListeners' = navListeners + 1
                /\ landmarkImages' = drawnImages
                /\ landmarkFrameIdx' =
                        IF Len(drawnImages) > 0 THEN 0 ELSE landmarkFrameIdx

\* click on Match with an image B in which ORB finds nB keypoints, nB one
\* of counts
BtnMatchFinding(counts) ==
    /\ ~btnMatchDisabled
    /\ navListeners <= MaxNavListeners
    /\ IF ~cvReady \/ ~imgBReady
       THEN UNCHANGED <<shared, btnMatchDisabled, landmarkImages,
                        landmarkFrameIdx, navListeners, lastMatch, poseResults>>
       ELSE IF detectResult = Null
       THEN /\ lastMatch' = [good |-> <<>>, matchResult |-> Null,
                             transformMat |-> Null, calls |-> <<>>,
                             alerts |-> <<NoFeaturesAlert>>,
                             stored |-> FALSE, uncaught |-> FALSE]
            /\ UNCHANGED <<shared, btnMatchDisabled, landmarkImages,
                           landmarkFrameIdx, navListeners, poseResults>>
       ELSE \E nB \in counts, ransac2 \in RansacOutcomes :
                \E good \in GoodMatches(Len(orbJSON.keypoints), nB) :
                    \E ransac1 \in RansacKeepingAll(good) :
                        btnMatch(nB, good, ransac1, ransac2)
    /\ UNCHANGED <<extractionVars, cvReady, imgAReady, imgBReady,
                   detectResult, orbJSON, btnDetectDisabled>>
    /\ UNCHANGED callVars

BtnMatchClick == BtnMatchFinding(0..MaxKeypoints)


\* the two clicks with images in which ORB finds the four keypoints a
\* homography needs
DetectFourKeypoints == BtnDetectFinding({4})
MatchFourKeypoints == BtnMatchFinding({4})

(***************************************************************************)
(* PoseTransform.transformLandmarks called on its own: one matrix applied  *)
(* to the frames of a list, in any order                                   *)
(***************************************************************************)
\* a cv.Mat after delete()
DeletedMat == [kind |-> "deleted"]

\* landmark lists in normalized coordinates
NormalizedFrames ==
    {MkPose(Pt(0, 0), Pt(0, LmDen), Pt(LmDen, 0)),
     MkPose(Pt(LmDen, LmDen), Pt(0, 0), Pt(LmDen, LmDen))}

FrameLists == UNION {[1..n -> NormalizedFrames] : n \in 1..MaxFrames}

\* transformLandmarks ending with  if (M) M.delete()
MatAfterTransformDeleted(M) == DeletedMat

\* the matrix as transformLandmarks leaves it: ptsMat and outMat are
\* deleted, M is not
MatAfterTransform(M) == M

InitTransform ==
    /\ PageUI
    /\ callArgs \in {[M |-> Mat(h), frames |-> fs,
                      srcSize |-> [width |-> FrameW, height |-> FrameH]] :
                        h \in Homographies, fs \in FrameLists}
    /\ callResult = [M |-> callArgs.M, frames |-> callArgs.frames,
                     out |-> [i \in DOMAIN callArgs.frames |-> Null]]

\* transformLandmarks(frames[i], srcSize, M, 'homography')
TransformFrame(i) ==
    /\ callResult.out[i] = Null
    /\ callResult' =
        [M |-> MatAfterTransform(callResult.M),
         frames |-> [callResult.frames EXCEPT ![i] =
                        LandmarksAfterTransform(@, callArgs.srcSize,
                                                callResult.M)],
         out |-> [callResult.out EXCEPT ![i] =
                        transformLandmarks(callResult.frames[i],
                                           callArgs.srcSize, callResult.M)]]
    /\ UNCHANGED <<poseVars, shared, orbVars, callArgs>>

NextTransform == \E i \in DOMAIN callArgs.frames : TransformFrame(i)

(***************************************************************************)
(* ORBModule.matchToTarget and drawMatches called on their own              *)
(***************************************************************************)
\* many source descriptors, each either distinctive or not
MatchInputs ==
    UNION {LET sourceJson == exportJSON(detectORB(nA))
           IN  {[sourceJson |-> sourceJson,
                 targetRows |-> nB,
                 knn |-> KnnOfPassing(nA, nB, pass),
                 ratio |-> DefaultRatio] :
                    nB \in 0..MaxTargets, pass \in SUBSET (0..(nA - 1))} :
           nA \in 0..MaxQueries}

\* few source descriptors, at every pair of distances and every ratio
RatioInputs ==
    UNION {LET sourceJson == exportJSON(detectORB(nA))
           IN  {[sourceJson |-> sourceJson,
                 targetRows |-> nB,
                 knn |-> [i \in 1..nA |-> KnnVec(i - 1, nB, ds[i])],
                 ratio |-> ratio] :
                    ds \in [1..nA -> DistancePairs], ratio \in Ratios,
                    nB \in 0..MaxTargets} :
           nA \in 0..MaxRatioQueries}

InitMatch ==
    /\ PageUI
    /\ \E in \in MatchInputs \cup RatioInputs :
        \E r \in RansacResults(RatioFilter(in.knn, in.ratio)) :
            callArgs = [sourceJson |-> in.sourceJson,
                        targetRows |-> in.targetRows, knn |-> in.knn,
                        ratio |-> in.ratio, ransac |-> r]
    /\ callResult = [match |-> Null, colours |-> Null, rematch |-> Null]

\* matchRes = orb.matchToTarget(sourceJson, imgB, {ratio})
MatchCall ==
    /\ callResult.match = Null
    /\ callResult' =
        [callResult EXCEPT
            !.match = MatchToTarget(callArgs.sourceJson,
                                    RatioFilter(callArgs.knn, callArgs.ratio),
                                    callArgs.ransac)]
    /\ UNCHANGED <<poseVars, shared, orbVars, callArgs>>

\* orb.drawMatches(ctx, imgA, imgB, keypointsA, keypointsB, matchRes)
DrawCall ==
    /\ callResult.match # Null
    /\ ~callResult.match.threw
    /\ callResult.colours = Null
    /\ callResult' =
        [callResult EXCEPT
            !.colours = JsArray(MatchColours(callResult.match.value))]
    /\ UNCHANGED <<poseVars, shared, orbVars, callArgs>>

\* orb.matchToTarget(sourceJson, imgB, {ratio}) once more on the same
\* features, with the ratio the user has set in the meantime
RematchCall ==
    /\ callResult.match # Null
    /\ callResult.rematch = Null
    /\ \E ratio \in Ratios :
        LET good == RatioFilter(callArgs.knn, ratio)
        IN  \E ransac \in RansacKeepingAll(good) :
                callResult' =
                    [callResult EXCEPT
                        !.rematch =
                            [ratio |-> ratio,
                             result |-> MatchToTarget(callArgs.sourceJson,
                                                      good, ransac)]]
    /\ UNCHANGED <<poseVars, shared, orbVars, callArgs>>

NextMatch == MatchCall \/ DrawCall \/ RematchCall

(***************************************************************************)
(* ORBModule.exportJSON and importJSON called on their own                  *)
(***************************************************************************)
\* byte values a descriptor is made of
ByteSamples == {0, 97, 255}

\* detect results with keypoints anywhere in images of every size
DetectResultsByPosition ==
    UNION {{[keypoints |-> [i \in 1..n |-> KeyPoint(i, at[i][1], at[i][2])],
             descriptors |-> serializeDescriptors(n, 1, [k \in 1..n |-> 97]),
             width |-> w,
             height |-> h] :
                at \in [1..n -> (0..(w - 1)) \X (0..(h - 1))]} :
           n \in 0..MaxJsonKeypoints, w \in 1..FrameW, h \in 1..FrameH}

\* detect results with descriptors of every content
DetectResultsByData ==
    UNION {UNION {{[keypoints |-> [i \in 1..n |-> KeyPoint(i, 0, 0)],
                    descriptors |-> serializeDescriptors(n, cols, data),
                    width |-> FrameW,
                    height |-> FrameH] :
                        data \in [1..(n * cols) -> ByteSamples]} :
                  cols \in {c \in 1..MaxDescriptorCols :
                                n * c <= MaxDescriptorBytes}} :
           n \in 0..MaxDescriptorBytes}

InitJson ==
    /\ PageUI
    /\ callArgs \in {[detectResult |-> d] :
                        d \in DetectResultsByPosition \cup DetectResultsByData}
    /\ callResult = [json |-> Null, imported |-> Null]

\* json = orb.exportJSON(detectResult)
ExportCall ==
    /\ callResult.json = Null
    /\ callResult' = [callResult EXCEPT
                        !.json = exportJSON(callArgs.detectResult)]
    /\ UNCHANGED <<poseVars, shared, orbVars, callArgs>>

\* orb.importJSON(json)
ImportCall ==
    /\ callResult.json # Null
    /\ callResult.imported = Null
    /\ callResult' = [callResult EXCEPT
                        !.imported = importJSON(callResult.json)]
    /\ UNCHANGED <<poseVars, shared, orbVars, callArgs>>

NextJson == ExportCall \/ ImportCall

(***************************************************************************)
(* Properties of one extraction session (specification Spec)               *)
(***************************************************************************)
InFrame(c) ==
    /\ 0 <= c.left
    /\ c.left + c.width <= FrameW
    /\ 0 <= c.top
    /\ c.top + c.height <= FrameH

SameRect(a, b) ==
    /\ a.left = b.left
    /\ a.top = b.top
    /\ a.width = b.width
    /\ a.height = b.height

SamePlace(a, b) == a.left = b.left /\ a.top = b.top

\* where the window centred on the hips would start, before clamping
UnclampedLeft(d) ==
    CenteredOrigin(d.image.left, d.image.width,
                   d.landmarks[1][LeftHipIdx].x, d.landmarks[1][RightHipIdx].x)

UnclampedTop(d) ==
    CenteredOrigin(d.image.top, d.image.height,
                   d.landmarks[1][LeftHipIdx].y, d.landmarks[1][RightHipIdx].y)

\* C1: after every recentering, whatever the anchor, the crop lies inside
\* the frame: 0 <= left, left + width <= frameWidth, 0 <= top,
\* top + height <= frameHeight.
C1_CropClamped ==
    \A k \in DOMAIN detections :
        HasHips(detections[k].landmarks) => InFrame(detections[k].cropAfter)

\* a recentering whose hip-centred window would leave the frame on the
\* right or bottom and one where it would leave it on the left or top
C1_Witness ==
    /\ \E k \in DOMAIN detections :
        /\ HasHips(detections[k].landmarks)
        /\ \/ UnclampedLeft(detections[k]) + detections[k].image.width > FrameW
           \/ UnclampedTop(detections[k]) + detections[k].image.height > FrameH
    /\ \E k \in DOMAIN detections :
        /\ HasHips(detections[k].landmarks)
        /\ \/ UnclampedLeft(detections[k]) < 0
           \/ UnclampedTop(detections[k]) < 0

\* C2: the crop recorded in frame k is the rectangle the detector's image of
\* frame k was cut from, and the recentering computed in frame k is the
\* rectangle frame k+1 is cut from.
C2_RecordedCropIsCropUsed ==
    /\ Len(poseResults) = Len(detections)
    /\ \A k \in DOMAIN poseResults :
        /\ k \in DOMAIN detections
        /\ SameRect(poseResults[k].cropRect, detections[k].image)
        /\ k > 1 => SameRect(detections[k].image, detections[k - 1].cropAfter)

\* a frame whose recentering moved the crop, followed by another frame
C2_Witness ==
    \E k \in DOMAIN poseResults :
        /\ k < Len(poseResults)
        /\ ~SamePlace(detections[k].cropAfter, detections[k].image)

\* C3: every stored landmark is the detector's landmark of that frame
\* converted with the rectangle the frame was detected in:
\* x = left + lm.x * width, y = top + lm.y * height.
C3_LandmarksOffsetByFrameCrop ==
    \A k \in DOMAIN poseResults :
        \A i \in DOMAIN poseResults[k].landmarks :
            /\ k \in DOMAIN detections
            /\ Len(detections[k].landmarks) > 0
            /\ i \in DOMAIN detections[k].landmarks[1]
            /\ LET lm == detections[k].landmarks[1][i]
                   c == detections[k].image
               IN  /\ poseResults[k].landmarks[i].x
                        = c.left * LmDen + lm.x * c.width
                   /\ poseResults[k].landmarks[i].y
                        = c.top * LmDen + lm.y * c.height

\* a frame with stored landmarks, detected away from the frame origin, whose
\* recentered rectangle differs from the one it was detected in
C3_Witness ==
    \E k \in DOMAIN poseResults :
        /\ DOMAIN poseResults[k].landmarks # {}
        /\ detections[k].image.left > 0
        /\ ~SamePlace(detections[k].cropAfter, detections[k].image)

\* C4: a frame without anchor (no landmarks, or a hip missing) leaves the
\* crop where it was, and the next frame is detected in the same rectangle.
C4_NoAnchorKeepsCrop ==
    \A k \in DOMAIN detections :
        ~HasHips(detections[k].landmarks) =>
            /\ SameRect(detections[k].cropAfter, detections[k].image)
            /\ k < Len(detections) =>
                    detections[k + 1].image = detections[k].image

\* both cases, each followed by a next frame: no landmarks, and a landmark
\* set without the right hip
C4_Witness ==
    /\ \E k \in DOMAIN detections :
        k < Len(detections) /\ detections[k].landmarks = <<>>
    /\ \E k \in DOMAIN detections :
        /\ k < Len(detections)
        /\ Len(detections[k].landmarks) > 0
        /\ ~HasHips(detections[k].landmarks)

NextTimestamp(d) == d.t + interval[d.run]

\* C5: a frame without a person gets exactly one PoseFrame, with an empty
\* landmark list and that frame's timestamp, and the extraction goes on to
\* the next timestamp.
C5_EmptyFrameRecorded ==
    /\ Len(poseResults) = Len(detections)
    /\ \A k \in DOMAIN detections :
        detections[k].landmarks = <<>> =>
            /\ k \in DOMAIN poseResults
            /\ poseResults[k].landmarks = <<>>
            /\ poseResults[k].time = detections[k].t
            /\ NextTimestamp(detections[k]) < duration =>
                \/ /\ k < Len(detections)
                   /\ detections[k + 1].t = NextTimestamp(detections[k])
                \/ /\ pc[detections[k].run] = "extracting"
                   /\ loopT[detections[k].run] = NextTimestamp(detections[k])
                   /\ seekedEvents > 0 \/ Len(tasks) > 0

\* a frame without a person, followed by a processed frame
C5_Witness ==
    \E k \in DOMAIN detections :
        /\ detections[k].landmarks = <<>>
        /\ k < Len(detections)
        /\ Len(poseResults) > k

\* C6: the crop keeps the width and height of the crop the user supplied.
C6_CropSizeFixed ==
    /\ \A r \in Runs :
        crop[r] # Null =>
            /\ crop[r].width = cropRect[r].width
            /\ crop[r].height = cropRect[r].height
    /\ \A k \in DOMAIN detections :
        /\ detections[k].image.width = cropRect[detections[k].run].width
        /\ detections[k].image.height = cropRect[detections[k].run].height

\* the crop has moved, twice, from where the user put it
C6_Witness ==
    \E k \in DOMAIN detections :
        /\ k > 1
        /\ ~SamePlace(detections[k].cropAfter, detections[k].image)
        /\ ~SamePlace(detections[k].image, cropRect[detections[k].run])

Extracted(r) == pc[r] \in {"loadOpenCV", "showOrbSection", "done"}

\* C7: timestamps are processed one at a time, in increasing order: no seek
\* is under way while a frame is being processed, and the session holds one
\* PoseFrame for each of the timestamps 0, n, 2n, ... sampled so far.
C7_OneFrameAtATime ==
    /\ Len(tasks) <= 1
    /\ Len(tasks) = 1 =>
        /\ seekedEvents = 0
        /\ currentTime = tasks[1].t
        /\ loopT[tasks[1].run] = tasks[1].t
    /\ \A k \in DOMAIN poseResults : poseResults[k].time = (k - 1) * interval[1]
    /\ pc[1] = "extracting" => loopT[1] = Len(poseResults) * interval[1]
    /\ Extracted(1) =>
        /\ Len(poseResults) * interval[1] >= duration
        /\ (Len(poseResults) - 1) * interval[1] < duration

\* an extraction that has finished with three frames
C7_Witness == Extracted(1) /\ Len(poseResults) >= 3

(***************************************************************************)
(* Properties of the page under every interleaving of its events           *)
(* (specification SpecUI)                                                  *)
(***************************************************************************)
IsPrefix(a, b) == Len(a) <= Len(b) /\ \A k \in DOMAIN a : a[k] = b[k]

\* C8: while an extraction is under way the session only grows by appended
\* frames, and the frames appended are those of that extraction, whatever
\* else happens on the page, a click on Detect Pose included.
C8_SessionAppendOnly ==
    [][\A r \in Runs :
          pc[r] = "extracting" =>
              /\ IsPrefix(poseResults, poseResults')
              /\ Len(poseResults') > Len(poseResults) =>
                    detections'[Len(detections')].run = r]_vars

(***************************************************************************)
(* Properties of the registration (specification SpecReg)                  *)
(***************************************************************************)
\* a transform that can be applied: a non-empty matrix
Usable(m) == IsMat(m) /\ ~m.empty

Matched == lastMatch # Null /\ lastMatch.alerts # <<NoFeaturesAlert>>

\* C9: when the estimation of the transform has failed (no matrix, or an
\* empty one), the failure is reported and no landmarks of the session are
\* handed to the transform step.
C9_NoTransformAfterFailedEstimation ==
    (Matched /\ ~Usable(lastMatch.transformMat)) =>
        /\ lastMatch.alerts # <<>>
        /\ lastMatch.calls = <<>>

\* C10: with fewer than 4 good matches the match result carries no
\* homography and no inliers, the estimation returns no matrix and reports
\* the failure, nothing is stored, and no exception leaves the handler.
C10_TooFewMatchesFailsCleanly ==
    (Matched /\ lastMatch.matchResult # Null
             /\ Len(lastMatch.matchResult.matches) < 4) =>
        /\ lastMatch.matchResult.homography = Null
        /\ lastMatch.matchResult.numInliers = 0
        /\ lastMatch.matchResult.inlierMask = Null
        /\ lastMatch.transformMat = Null
        /\ \E k \in DOMAIN lastMatch.alerts :
                lastMatch.alerts[k] = TransformFailedAlert
        /\ ~lastMatch.uncaught

\* a match with three good matches, against a session with landmarks
C10_Witness ==
    /\ Matched
    /\ lastMatch.matchResult # Null
    /\ Len(lastMatch.matchResult.matches) = 3
    /\ \E k \in DOMAIN shared.poseA : DOMAIN shared.poseA[k] # {}

\* the landmarks of the stored session, frame by frame
SessionLandmarks == [k \in DOMAIN poseResults |-> poseResults[k].landmarks]

\* C11: a click on Match whose estimation fails (too few matches or no
\* homography) leaves the stored session, its shared landmarks and the
\* detection result of image A as they were, and leaves Match enabled, so
\* that the registration can be run again, with another image B, without a
\* new extraction.
C11_FailedRegistrationIsolated ==
    [][(lastMatch' # lastMatch /\ Matched' /\ ~Usable(lastMatch'.transformMat)) =>
          /\ poseResults' = poseResults
          /\ shared'.poseA = shared.poseA
          /\ detectResult' = detectResult
          /\ detectResult' # Null
          /\ orbJSON' = orbJSON
          /\ pc' = pc
          /\ ~btnMatchDisabled']_vars

\* a failed registration on a session with landmarks, after which Match is
\* still enabled and the session is the one the extraction left
C11_Witness ==
    /\ Matched
    /\ ~Usable(lastMatch.transformMat)
    /\ lastMatch.calls # <<>>
    /\ ~btnMatchDisabled
    /\ shared.poseA = SessionLandmarks

\* a click on Match whose estimation gave a usable matrix and whose
\* transformed landmarks were stored
Registered == Matched /\ lastMatch.stored /\ Usable(lastMatch.transformMat)

\* what frame i of the session becomes under the matrix m
TransformOfFrame(frame, m) ==
    IF DOMAIN frame = {}
    THEN <<>>
    ELSE transformLandmarks(frame, shared.sizeA, m).value

\* C12: after a successful registration the transformed session has one
\* entry for each frame of the original session, and entry i is the
\* transform of frame i.
C12_TransformedSessionParallel ==
    Registered =>
        /\ Len(shared.transformedPoseLandmarks) = Len(shared.poseA)
        /\ \A i \in DOMAIN shared.poseA :
                LET entry == shared.transformedPoseLandmarks[i]
                    expected == TransformOfFrame(shared.poseA[i],
                                                 lastMatch.transformMat)
                IN  /\ DOMAIN entry = DOMAIN expected
                    /\ \A j \in DOMAIN entry : entry[j] = expected[j]

\* C13: once the extraction is complete no registration attempt, successful
\* or failed, changes a landmark of a stored PoseFrame: the session and the
\* landmark lists shared with the registration stay as the extraction left
\* them.
C13_RegistrationKeepsSession ==
    [][pc[1] = "done" =>
          /\ poseResults' = poseResults
          /\ shared'.poseA = shared.poseA]_vars

\* an attempt that handed a frame with landmarks and a usable matrix to
\* transformLandmarks, after which the session is still the one the detector
\* history accounts for
C13_Witness ==
    /\ pc[1] = "done"
    /\ Matched
    /\ \E k \in DOMAIN lastMatch.calls :
            /\ Usable(lastMatch.calls[k].transformMat)
            /\ DOMAIN lastMatch.calls[k].landmarks # {}
    /\ shared.poseA = SessionLandmarks
    /\ C3_LandmarksOffsetByFrameCrop

C15_MaskParallelToMatches ==
    (/\ callResult.match # Null
     /\ ~callResult.match.threw
     /\ callResult.match.value.homography # Null)
    => LET res == callResult.match.value
           mask == res.inlierMask.items
       IN  /\ res.matches = RatioFilter(callArgs.knn, callArgs.ratio)
           /\ Len(mask) = Len(res.matches)
           /\ \A i \in DOMAIN res.matches :
                mask[i] = (res.matches[i].queryIdx \in callArgs.ransac.inliers)
           /\ callResult.colours # Null =>
                /\ Len(callResult.colours.items) = Len(res.matches)
                /\ \A i \in DOMAIN res.matches :
                    (callResult.colours.items[i] = "green") = mask[i]

\* a homography was found, the ratio test dropped a raw match, RANSAC
\* rejected one of the matches that passed, and the matches were drawn
C15_Witness ==
    /\ callResult.match # Null
    /\ ~callResult.match.threw
    /\ callResult.match.value.homography # Null
    /\ Len(callResult.match.value.matches) < Len(callArgs.knn)
    /\ \E i \in DOMAIN callResult.match.value.matches :
        ~callResult.match.value.inlierMask.items[i]
    /\ callResult.colours # Null
    /\ \E i \in DOMAIN callResult.colours.items :
        callResult.colours.items[i] = "red"

\* C16: for each source descriptor with nearest and second-nearest target
\* distances d1 <= d2, its nearest match is in the matcher's output if and
\* only if d1 < ratio * d2.
C16_RatioTest ==
    (callResult.match # Null /\ ~callResult.match.threw)
    => \A i \in DOMAIN callArgs.knn :
        Len(callArgs.knn[i]) >= 2
        => LET m == callArgs.knn[i][1]
               n == callArgs.knn[i][2]
               out == callResult.match.value.matches
           IN  (\E j \in DOMAIN out : out[j] = m)
               <=> (m.distance * callArgs.ratio.den
                        < callArgs.ratio.num * n.distance)

\* the matcher returned with one source descriptor exactly on the
\* threshold (d1 = ratio * d2, d2 > 0) and left out, and one below the
\* threshold and kept
C16_Witness ==
    /\ callResult.match # Null
    /\ ~callResult.match.threw
    /\ \E i \in DOMAIN callArgs.knn :
        /\ Len(callArgs.knn[i]) >= 2
        /\ callArgs.knn[i][2].distance > 0
        /\ callArgs.knn[i][1].distance * callArgs.ratio.den
            = callArgs.ratio.num * callArgs.knn[i][2].distance
        /\ \A j \in DOMAIN callResult.match.value.matches :
            callResult.match.value.matches[j] # callArgs.knn[i][1]
    /\ \E i \in DOMAIN callArgs.knn :
        \E j \in DOMAIN callResult.match.value.matches :
            callResult.match.value.matches[j] = callArgs.knn[i][1]

\* C17: in the matcher's output list every queryIdx (source descriptor
\* index) appears at most once.
C17_QueryIndexAtMostOnce ==
    (callResult.match # Null /\ ~callResult.match.threw)
    => LET out == callResult.match.value.matches
       IN  \A i, j \in DOMAIN out :
            out[i].queryIdx = out[j].queryIdx => i = j

\* the matcher returned several matches, two of them to the same target
\* descriptor
C17_Witness ==
    /\ callResult.match # Null
    /\ ~callResult.match.threw
    /\ \E i, j \in DOMAIN callResult.match.value.matches :
        /\ i # j
        /\ callResult.match.value.matches[i].trainIdx
            = callResult.match.value.matches[j].trainIdx

\* C18: when either input feature set has zero keypoints or a zero-row
\* descriptor matrix, matching returns an empty match list and does not
\* raise an error.
C18_EmptyInputGivesEmptyList ==
    (/\ callResult.match # Null
     /\ \/ Len(callArgs.sourceJson.keypoints) = 0
        \/ callArgs.sourceJson.descriptors = Null
        \/ callArgs.targetRows = 0)
    => /\ ~callResult.match.threw
       /\ callResult.match.value.matches = <<>>

RatioLeq(r1, r2) == r1.num * r2.den <= r2.num * r1.den

MatchSet(matches) == {matches[i] : i \in DOMAIN matches}

\* the good matches of the first call are among those of the second
GoodMatchesGrow(first, second) ==
    /\ MatchSet(first) \subseteq MatchSet(second)
    /\ Len(first) <= Len(second)

\* C25: for the same source and target descriptors, if ratio r1 <= r2 then
\* the good matches obtained with r1 are a subset of those obtained with r2,
\* and there are no more of them.
C25_RatioMonotone ==
    (/\ callResult.rematch # Null
     /\ ~callResult.match.threw
     /\ ~callResult.rematch.result.threw)
    => LET r1 == callArgs.ratio
           r2 == callResult.rematch.ratio
           good1 == callResult.match.value.matches
           good2 == callResult.rematch.result.value.matches
       IN  /\ RatioLeq(r1, r2) => GoodMatchesGrow(good1, good2)
           /\ RatioLeq(r2, r1) => GoodMatchesGrow(good2, good1)

\* the same features matched with a lower and then with a higher ratio, the
\* higher ratio letting through a match the lower one rejected, next to a
\* match both let through
C25_Witness ==
    /\ callResult.rematch # Null
    /\ ~callResult.match.threw
    /\ ~callResult.rematch.result.threw
    /\ ~RatioLeq(callResult.rematch.ratio, callArgs.ratio)
    /\ callResult.match.value.matches # <<>>
    /\ Len(callResult.match.value.matches)
        < Len(callResult.rematch.result.value.matches)

(***************************************************************************)
(* Properties of exportJSON and importJSON (specification SpecJson)         *)
(***************************************************************************)
\* C19: importJSON(exportJSON(detectResult)) has descriptors with the same
\* rows and cols and byte-for-byte the same data as detectResult, and null
\* descriptors stay null.
C19_DescriptorsRoundTrip ==
    callResult.imported # Null
    => /\ ~callResult.imported.threw
       /\ LET before == callArgs.detectResult.descriptors
              after == callResult.imported.value.descriptors
          IN  IF before = Null
              THEN after = Null
              ELSE /\ after # Null
                   /\ after.rows = before.rows
                   /\ after.cols = before.cols
                   /\ after.data = before.data

\* descriptors whose length is no multiple of three and which hold a byte
\* above 127 went through export and import
C19_Witness ==
    /\ callResult.imported # Null
    /\ callArgs.detectResult.descriptors # Null
    /\ Len(callArgs.detectResult.descriptors.data) % 3 # 0
    /\ \E k \in DOMAIN callArgs.detectResult.descriptors.data :
        callArgs.detectResult.descriptors.data[k] > 127
    /\ callResult.json.descriptors.data_b64[
            Len(callResult.json.descriptors.data_b64)] = B64Pad

\* C20: importJSON(exportJSON(detectResult)) reproduces the keypoint
\* positions of detectResult, together with the same image width and
\* height.
C20_KeypointsRoundTrip ==
    (callResult.imported # Null /\ ~callResult.imported.threw)
    => LET before == callArgs.detectResult
           after == callResult.imported.value
       IN  /\ after.width = before.width
           /\ after.height = before.height
           /\ Len(after.keypoints) = Len(before.keypoints)
           /\ \A i \in DOMAIN before.keypoints :
                /\ SameNumber(after.keypoints[i].x, before.keypoints[i].x)
                /\ SameNumber(after.keypoints[i].y, before.keypoints[i].y)

(***************************************************************************)
(* Properties of the registration under every interleaving of the page's   *)
(* events (specification SpecUIReg)                                        *)
(***************************************************************************)
\* the timestamps 0, n, 2n, ... below the duration
SampledTimestamps ==
    {t \in 0..(duration - 1) : t % ParseInterval(intervalInput) = 0}

\* C21: whenever a click on Match runs the registration, the session it
\* reads from the shared state is that of a completed extraction: it holds
\* one landmark list for each sampled timestamp, never a part of them.
C21_RegistrationReadsCompleteSession ==
    [][(lastMatch' # lastMatch /\ Matched') =>
          /\ ~IsNull(shared.poseA)
          /\ Len(shared.poseA) = Cardinality(SampledTimestamps)]_vars

(***************************************************************************)
(* CropBox: dragging and resizing the crop box with the mouse               *)
(***************************************************************************)
MinCropSize == 10

Corners == {"nw", "ne", "sw", "se"}

\* clientX and clientY of the mouse events followed, relative to the image
MouseXs == {k * MouseStep : k \in 0..(ImgRectW \div MouseStep)}
MouseYs == {k * MouseStep : k \in 0..(ImgRectH \div MouseStep)}

\* _onImgLoad: the crop box covers the displayed image
CoverImage(box) ==
    [box EXCEPT !.left = 0, !.top = 0,
                !.width = ImgRectW, !.height = ImgRectH]

\* constructor, then _onImgLoad
InitCrop ==
    /\ InitCommon
    /\ cropBox = CoverImage([left |-> 0, top |-> 0, width |-> 0, height |-> 0,
                             isDragging |-> FALSE, isResizing |-> FALSE,
                             resizeCorner |-> "", startX |-> 0, startY |-> 0,
                             startLeft |-> 0, startTop |-> 0,
                             startW |-> 0, startH |-> 0])
    /\ intervalInput = 1
    /\ duration = 1
    /\ scene = {<<>>}
    /\ callArgs = Null
    /\ callResult = Null

CropUnchanged ==
    UNCHANGED <<intervalInput, duration, scene, currentTime, onseeked,
                seekedEvents, clicks, pc, cropRect, interval, crop,
                isFirstFrame, loopT, tasks, poseResults, detections, shared,
                orbVars, callVars>>

\* window resize, ResizeObserver, image load
_onImgLoad ==
    /\ cropBox' = CoverImage(cropBox)
    /\ CropUnchanged

\* mouse down on the crop box, away from the handles
_onMouseDown ==
    /\ \E x \in MouseXs, y \in MouseYs :
        /\ cropBox.left < x /\ x < cropBox.left + cropBox.width
        /\ cropBox.top < y /\ y < cropBox.top + cropBox.height
        /\ cropBox' = [cropBox EXCEPT !.isDragging = TRUE,
                                      !.startX = x, !.startY = y,
                                      !.startLeft = cropBox.left,
                                      !.startTop = cropBox.top]
    /\ CropUnchanged

\* mouse down on the resize handle of a corner
_onHandleMouseDown ==
    /\ \E corner \in Corners :
        cropBox' =
            [cropBox EXCEPT
                !.isResizing = TRUE,
                !.resizeCorner = corner,
                !.startX = IF corner \in {"nw", "sw"}
                           THEN cropBox.left
                           ELSE cropBox.left + cropBox.width,
                !.startY = IF corner \in {"nw", "ne"}
                           THEN cropBox.top
                           ELSE cropBox.top + cropBox.height,
                !.startW = cropBox.width, !.startH = cropBox.height,
                !.startLeft = cropBox.left, !.startTop = cropBox.top]
    /\ CropUnchanged

\* the branch of _onMouseMove taken while dragging
Dragged(box, x, y) ==
    LET dx == x - box.startX
        dy == y - box.startY
        newLeft == Max(0, Min(box.startLeft + dx, ImgRectW - box.width))
        newTop == Max(0, Min(box.startTop + dy, ImgRectH - box.height))
    IN  [box EXCEPT !.left = newLeft, !.top = newTop]

\* the constraint of the resized box within the image and to the minimum size
ConstrainResized(left0, top0, width0, height0) ==
    LET left == Max(0, Min(left0, ImgRectW - width0))
        top == Max(0, Min(top0, ImgRectH - height0))
        width == Max(MinCropSize, Min(width0, ImgRectW - left))
        height == Max(MinCropSize, Min(height0, ImgRectH - top))
    IN  [left |-> left, top |-> top, width |-> width, height |-> height]

\* the branch of _onMouseMove taken while resizing
Resized(box, x, y) ==
    LET dx == x - box.startX
        dy == y - box.startY
        west == box.resizeCorner \in {"nw", "sw"}
        north == box.resizeCorner \in {"nw", "ne"}
        known == box.resizeCorner \in Corners
        left0 == IF west THEN box.startLeft + dx ELSE box.startLeft
        top0 == IF north THEN box.startTop + dy ELSE box.startTop
        width0 == IF west THEN box.startW - dx
                  ELSE IF known THEN box.startW + dx ELSE box.startW
        height0 == IF north THEN box.startH - dy
                   ELSE IF known THEN box.startH + dy ELSE box.startH
        c == ConstrainResized(left0, top0, width0, height0)
    IN  [box EXCEPT !.left = c.left, !.top = c.top,
                    !.width = c.width, !.height = c.height]

_onMouseMove ==
    /\ \E x \in MouseXs, y \in MouseYs :
        cropBox' = IF cropBox.isDragging THEN Dragged(cropBox, x, y)
                   ELSE IF cropBox.isResizing THEN Resized(cropBox, x, y)
                   ELSE cropBox
    /\ CropUnchanged

_onMouseUp ==
    /\ cropBox' = [cropBox EXCEPT !.isDragging = FALSE, !.isResizing = FALSE,
                                  !.resizeCorner = ""]
    /\ CropUnchanged

NextCrop ==
    \/ _onImgLoad
    \/ _onMouseDown
    \/ _onHandleMouseDown
    \/ _onMouseMove
    \/ _onMouseUp

(***************************************************************************)
(* Further properties of the extraction (specification Spec)               *)
(***************************************************************************)
\* the midpoint of the hips is the centre of the detector's image: (0.5, 0.5)
AnchorAtCentre(landmarks) ==
    /\ HasHips(landmarks)
    /\ landmarks[1][LeftHipIdx].x + landmarks[1][RightHipIdx].x = LmDen
    /\ landmarks[1][LeftHipIdx].y + landmarks[1][RightHipIdx].y = LmDen

\* C24: a recentering whose anchor is the exact centre of the current crop
\* (crop-normalized (0.5, 0.5)) leaves the crop unchanged.
C24_CentredAnchorKeepsCrop ==
    \A k \in DOMAIN detections :
        AnchorAtCentre(detections[k].landmarks) =>
            SameRect(detections[k].cropAfter, detections[k].image)

\* C26: every crop rectangle recorded in a PoseFrame lies within the video
\* frame (left >= 0, top >= 0, left + width <= frameWidth,
\* top + height <= frameHeight), the frames recorded before the first
\* recentering included, for every crop box inside the displayed video.
C26_RecordedCropInFrame ==
    \A k \in DOMAIN poseResults :
        poseResults[k].cropRect # Null => InFrame(poseResults[k].cropRect)

(***************************************************************************)
(* The keypoints of image B: detected by the Match handler with the        *)
(* parameters of the page, and once more inside matchToTarget               *)
(***************************************************************************)
\* new cv.ORB(this._nfeatures || 1200): _nfeatures is never assigned
MatcherNFeatures == 1200

\* Number(nfeatures.value) || 1200   (0 stands for "0", "" and NaN)
ParseNFeatures(v) == IF v = 0 THEN 1200 ELSE v

NFeatureInputs == {0, FewFeatures, 1200}

\* the corners of an image, each with its response: the ranks 1..c in any
\* order
CornerResponses ==
    UNION {{f \in [1..c -> 1..c] : \A i, j \in 1..c : f[i] = f[j] => i = j} :
           c \in 0..MaxCorners}

\* the corners ORB retains: the nfeatures strongest
RetainBest(response, nfeatures) ==
    {k \in DOMAIN response :
        Cardinality({j \in DOMAIN response : response[j] > response[k]})
            < nfeatures}

\* the elements of S in increasing order of key
RECURSIVE ListByKey(_, _)
ListByKey(S, key) ==
    IF S = {}
    THEN <<>>
    ELSE LET first == CHOOSE e \in S : \A o \in S : key[e] <= key[o]
         IN  <<first>> \o ListByKey(S \ {first}, key)

\* orb.detectAndCompute: the retained corners as keypoints, in the order of
\* the detector, which is either the order of the scan or that of the
\* response
DetectAndCompute(response, nfeatures, order) ==
    LET kept == RetainBest(response, nfeatures)
        key == IF order = "scan"
               THEN [k \in DOMAIN response |-> k]
               ELSE [k \in DOMAIN response |-> 0 - response[k]]
        corners == ListByKey(kept, key)
    IN  [i \in DOMAIN corners |->
            [x |-> (corners[i] - 1) % FrameW,
             y |-> (corners[i] - 1) \div FrameW]]

\* detectResultB.keypoints.map(kp => ({...kp, x: kp.x + cropRectB.x, ...}))
OffsetKeypoints(keypoints, cropRectB) ==
    [i \in DOMAIN keypoints |->
        [x |-> keypoints[i].x + cropRectB.x, y |-> keypoints[i].y + cropRectB.y]]

InitTrain ==
    /\ PageUI
    /\ callArgs \in
        [response : CornerResponses, nfeatures : NFeatureInputs,
         order : {"scan", "response"},
         cropRectB : {[x |-> 0, y |-> 0], [x |-> 1, y |-> 1]},
         sourceRows : 1..MaxCorners]
    /\ callResult = [offsetKeypointsB |-> Null, targetKeypoints |-> Null,
                     matches |-> Null]

\* detectResultB = orbModule.detectORB(target, orbDetectionParameters) and
\* the offset of its keypoints
DetectTargetCall ==
    /\ callResult.offsetKeypointsB = Null
    /\ callResult' =
        [callResult EXCEPT
            !.offsetKeypointsB =
                JsArray(OffsetKeypoints(
                    DetectAndCompute(callArgs.response,
                                     ParseNFeatures(callArgs.nfeatures),
                                     callArgs.order),
                    callArgs.cropRectB))]
    /\ UNCHANGED <<poseVars, shared, orbVars, callArgs>>

\* matchToTarget: its own detection on the target, knnMatch against the
\* descriptors of that detection, the ratio test
MatchTargetCall ==
    /\ callResult.offsetKeypointsB # Null
    /\ callResult.matches = Null
    /\ LET targetKeypoints == DetectAndCompute(callArgs.response,
                                               MatcherNFeatures,
                                               callArgs.order)
           knn == KnnOfPassing(callArgs.sourceRows, Len(targetKeypoints),
                               0..(callArgs.sourceRows - 1))
       IN  callResult' =
            [callResult EXCEPT
                !.targetKeypoints = JsArray(targetKeypoints),
                !.matches = JsArray(RatioFilter(knn, DefaultRatio))]
    /\ UNCHANGED <<poseVars, shared, orbVars, callArgs>>

NextTrain == DetectTargetCall \/ MatchTargetCall

(***************************************************************************)
(* runPoseDetectionOnFrames called without a crop rectangle                *)
(***************************************************************************)
\* a page with a video of any length and any interval typed in
InitNoCrop ==
    /\ InitCommon
    /\ cropBox = [left |-> 0, top |-> 0, width |-> DispW, height |-> DispH]
    /\ intervalInput \in IntervalInputs
    /\ duration \in 1..MaxDuration
    /\ scene = DetectorResults
    /\ callArgs = Null
    /\ callResult = Null

\* runPoseDetectionOnFrames(videoEl, canvasEl, poseResults, n) with
\* cropRect null or left out, up to the creation of the landmarker
RunWithoutCrop ==
    /\ clicks = 0
    /\ pc[1] = "idle"
    /\ clicks' = 1
    /\ cropRect' = [cropRect EXCEPT ![1] = Null]
    /\ interval' = [interval EXCEPT ![1] = ParseInterval(intervalInput)]
    /\ pc' = [pc EXCEPT ![1] = "createLandmarker"]
    /\ UNCHANGED <<uiVars, currentTime, onseeked, seekedEvents, crop,
                   isFirstFrame, loopT, tasks, poseResults, detections,
                   shared>>
    /\ UNCHANGED orbVars
    /\ UNCHANGED callVars

NextNoCrop ==
    \/ RunWithoutCrop
    \/ SeekedEvent
    \/ \E r \in Runs : LandmarkerReady(r)
    \/ \E i \in DOMAIN tasks : FrameLoaded(i)
    \/ \E i \in DOMAIN tasks : FrameDetected(i)

(***************************************************************************)
(* The viewer of the transformed landmarks: Prev and Next                  *)
(***************************************************************************)
\* the images a Match can hand to the viewer: the frames of the session that
\* have landmarks, in the order of the session, drawn with one
\* transformation
DrawnImages ==
    {LET frames == ListByKey(S, [k \in 1..ViewerFrames |-> k])
     IN  [i \in DOMAIN frames |-> [frame |-> frames[i], H |-> h]] :
        S \in SUBSET (1..ViewerFrames), h \in Homographies}

\* the page before any Match: one click listener on each button
InitNav ==
    /\ PageUI
    /\ callArgs = Null
    /\ callResult = Null

\* showLandmarkFrame(idx): the index it leaves in landmarkFrameIdx
showLandmarkFrame(current, idx, images) ==
    IF Len(images) = 0
    THEN current
    ELSE Max(0, Min(idx, Len(images) - 1))

\* one click dispatched to the listeners of a button, one after the other,
\* each calling showLandmarkFrame(landmarkFrameIdx + step)
RECURSIVE DispatchClick(_, _, _, _)
DispatchClick(current, step, listeners, images) ==
    IF listeners = 0
    THEN current
    ELSE DispatchClick(showLandmarkFrame(current, current + step, images),
                       step, listeners - 1, images)

NavUnchanged ==
    /\ UNCHANGED <<poseVars, shared, callVars>>
    /\ UNCHANGED <<cvReady, imgAReady, imgBReady, detectResult, orbJSON,
                   btnDetectDisabled, btnMatchDisabled, landmarkImages,
                   navListeners, lastMatch>>

\* the end of a successful Match: another listener on each button, the
\* drawn images shown from the first on, or the navigation hidden
DisplayLandmarks ==
    /\ navListeners <= MaxNavListeners
    /\ \E drawnImages \in DrawnImages :
        /\ navListeners' = navListeners + 1
        /\ landmarkImages' = drawnImages
        /\ landmarkFrameIdx' = IF Len(drawnImages) > 0
                               THEN showLandmarkFrame(landmarkFrameIdx, 0,
                                                      drawnImages)
                               ELSE landmarkFrameIdx
    /\ UNCHANGED <<poseVars, shared, callVars>>
    /\ UNCHANGED <<cvReady, imgAReady, imgBReady, detectResult, orbJSON,
                   btnDetectDisabled, btnMatchDisabled, lastMatch>>

\* click on Next: the navigation is shown and nextBtn is not disabled
NextBtnClick ==
    /\ Len(landmarkImages) > 0
    /\ landmarkFrameIdx # Len(landmarkImages) - 1
    /\ landmarkFrameIdx' =
        DispatchClick(landmarkFrameIdx, 1, navListeners, landmarkImages)
    /\ NavUnchanged

\* click on Prev: the navigation is shown and prevBtn is not disabled
PrevBtnClick ==
    /\ Len(landmarkImages) > 0
    /\ landmarkFrameIdx # 0
    /\ landmarkFrameIdx' =
        DispatchClick(landmarkFrameIdx, -1, navListeners, landmarkImages)
    /\ NavUnchanged

\* image A has just been loaded into the ORB section
ImageALoaded ==
    \E r \in Runs : pc[r] = "showOrbSection" /\ pc'[r] = "done"

\* the conditions under which Match may run
MatchAllowed == cvReady /\ imgBReady /\ detectResult # Null

C22_FinitelyManyTimestamps ==
    /\ \A k \in DOMAIN detections :
        detections[k].t >= 0 /\ detections[k].t < duration
    /\ Len(detections) <= duration

(***************************************************************************)
(* Properties of the crop box (specification SpecCrop)                     *)
(***************************************************************************)
\* C23: after any sequence of drag and resize mouse events the crop box lies
\* within the displayed image: left >= 0, top >= 0, left + width <= displayed
\* width, top + height <= displayed height.
C23_CropBoxWithinImage ==
    /\ cropBox.left >= 0
    /\ cropBox.top >= 0
    /\ cropBox.left + cropBox.width <= ImgRectW
    /\ cropBox.top + cropBox.height <= ImgRectH

(***************************************************************************)
(* Properties of the target keypoints (specification SpecTrain)            *)
(***************************************************************************)
\* C27: for every match returned by the matcher, trainIdx designates the
\* same target keypoint in the list the caller looks target positions up in
\* (offsetKeypointsB, for drawing and for the landmark homography) as in the
\* list the matcher matched against (targetKeypoints).
C27_TrainIdxSameKeypoint ==
    callResult.matches # Null
    => \A i \in DOMAIN callResult.matches.items :
        LET t == callResult.matches.items[i].trainIdx + 1
            own == callResult.targetKeypoints.items
            used == callResult.offsetKeypointsB.items
        IN  /\ t \in DOMAIN used
            /\ used[t].x - callArgs.cropRectB.x = own[t].x
            /\ used[t].y - callArgs.cropRectB.y = own[t].y

(***************************************************************************)
(* Properties of an extraction without crop rectangle (specification       *)
(* SpecNoCrop)                                                             *)
(***************************************************************************)
\* C28: whenever the detector returned a pose for a frame, the PoseFrame of
\* that frame stores a non-empty landmark list, in pixels of the full frame,
\* also when the extraction was started without a crop rectangle.
C28_PoseStoredInFramePixels ==
    \A k \in DOMAIN poseResults :
        (k \in DOMAIN detections /\ Len(detections[k].landmarks) > 0)
        => /\ DOMAIN poseResults[k].landmarks # {}
           /\ \A i \in DOMAIN poseResults[k].landmarks :
                /\ i \in DOMAIN detections[k].landmarks[1]
                /\ poseResults[k].landmarks[i]
                    = OffsetPoint(detections[k].landmarks[1][i],
                                  detections[k].image)

Next ==
    \/ ClickDetect
    \/ SeekedEvent
    \/ \E r \in Runs : LandmarkerReady(r)
    \/ \E i \in DOMAIN tasks : FrameLoaded(i)
    \/ \E i \in DOMAIN tasks : FrameDetected(i)
    \/ \E r \in Runs : OpenCVLoaded(r)
    \/ \E r \in Runs : OrbSectionShown(r)

Spec == Init /\ [][Next]_vars

\* every interleaving of the page's events: Detect Pose can be clicked again
\* at any time
NextUI ==
    \/ Next
    \/ ClickDetectAgain

SpecUI == InitUI /\ [][NextUI]_vars

\* one extraction followed by the registration against image B
NextReg ==
    \/ Next
    \/ FileBChange
    \/ BtnDetectClick
    \/ BtnMatchClick

SpecReg == InitUI /\ [][NextReg]_vars

\* transformLandmarks applied to the frames of a list
SpecTransform == InitTransform /\ [][NextTransform]_vars

SpecMatch == InitMatch /\ [][NextMatch]_vars

SpecJson == InitJson /\ [][NextJson]_vars

\* every interleaving of the page's events, the registration included
NextUIReg ==
    \/ NextUI
    \/ FileBChange
    \/ DetectFourKeypoints
    \/ MatchFourKeypoints

SpecUIReg == InitOneFrame /\ [][NextUIReg]_vars

\* one extraction with any integer typed in the interval input
SpecInterval == InitInterval /\ [][Next]_vars

\* the mouse on the crop box of one image
SpecCrop == InitCrop /\ [][NextCrop]_vars

\* the two detections of image B behind one click on Match
SpecTrain == InitTrain /\ [][NextTrain]_vars

\* one extraction started without a crop rectangle
SpecNoCrop == InitNoCrop /\ [][NextNoCrop]_vars

\* the viewer after any number of Matches
NextNav ==
    \/ DisplayLandmarks
    \/ NextBtnClick
    \/ PrevBtnClick

SpecNav == InitNav /\ [][NextNav]_vars

====
